---- MODULE Spec2Model ----
(***************************************************************************)
(* Model of package hlskeyinfo (src/keyinfo.go): the KeyInfo descriptor,   *)
(* the files it creates in the temporary directory, the io.Writer it       *)
(* serialises into and the byte slices it hands to its caller.             *)
(*                                                                         *)
(* Strings and byte slices are sequences of byte values (0..255); the      *)
(* empty sequence is the empty string (and the nil slice).                 *)
(***************************************************************************)
EXTENDS Integers, Sequences, FiniteSets, TLC

\* ------------------------------------------------------------------ bounds
\* Number of KeyInfo objects the caller constructs.
NumDesc == 2
\* Number of calls the caller makes in one run.
MaxOps == 4
\* Largest number of bytes a failing Write accepts before it reports its error.
MaxPartial == 1

\* ------------------------------------------------------- program constants
\* make([]byte, 16) in NewKeyInfo
KeyLen == 16
\* make([]byte, 16) in RandIV
IVLen == 16
\* '\n'
NL == 10

Desc == 1..NumDesc

\* ------------------------------------------------------------ byte strings
Min(a, b) == IF a < b THEN a ELSE b

\* One hexadecimal digit of fmt's %x verb, as its ASCII code ('0'..'9','a'..'f').
HexDigit(n) == IF n < 10 THEN 48 + n ELSE 87 + n

\* fmt.Sprintf("%032x", iv) for a byte slice: two lowercase digits per byte,
\* left-padded with '0' to 32 characters.
RECURSIVE HexBytes(_)
HexBytes(bs) ==
  IF bs = <<>> THEN <<>>
  ELSE <<HexDigit(Head(bs) \div 16), HexDigit(Head(bs) % 16)>> \o HexBytes(Tail(bs))

Sprintf032x(bs) ==
  LET h == HexBytes(bs)
  IN  [i \in 1..(IF Len(h) < 32 THEN 32 - Len(h) ELSE 0) |-> 48] \o h

\* "00000000000000000000000000000000"
ZeroIV == [i \in 1..32 |-> 48]

\* The values crypto/rand.Read fills a 16-byte slice with (two samples).
RandBytes ==
  { [i \in 1..KeyLen |-> (i * 37 + 11) % 256],
    [i \in 1..KeyLen |-> 255 - i] }

\* ------------------------------------------------------------------- paths
\* os.TempDir(): "/t"
TempDir == <<47, 116>>
\* filepath.Join(dir, name)
Join(dir, name) == dir \o <<47>> \o name

\* "hls_key_*.bin" split at its '*': prefix "hls_key_" and suffix ".bin"
KeyPrefix == <<104, 108, 115, 95, 107, 101, 121, 95>>
KeySuffix == <<46, 98, 105, 110>>
\* The random strings os.CreateTemp puts in place of '*': "1", "2"
RandNames == {<<49>>, <<50>>}
TempName(r) == Join(TempDir, KeyPrefix \o r \o KeySuffix)
KeyPaths == {TempName(r) : r \in RandNames}

\* fileName := "hls_keyinfo_*.txt"; filePath := filepath.Join(os.TempDir(), fileName)
InfoFileName ==
  <<104, 108, 115, 95, 107, 101, 121, 105, 110, 102, 111, 95, 42, 46, 116, 120, 116>>
InfoPath == Join(TempDir, InfoFileName)

\* A file of the caller's, outside the temporary directory: "/u"
UserPath == <<47, 117>>
UserPaths == {UserPath}

Paths == KeyPaths \cup {InfoPath} \cup UserPaths

\* ------------------------------------------------------------------ inputs
\* url arguments of NewKeyInfo: "h://a"
URLs == {<<104, 58, 47, 47, 97>>}
\* iv arguments of SetIV: "", "12"
IVs == {<<>>, <<49, 50>>}
\* keyFile arguments of SetKeyFile: "", a file of the caller's, or a name in the
\* temporary directory that a key file has or may get
KeyFileArgs == {<<>>} \cup UserPaths \cup KeyPaths
\* Values the caller stores into a slice it got from GetKey
PokeValues == {0}

\* -------------------------------------------------------------- filesystem
NoFile == [exists |-> FALSE, data |-> <<>>]
File(bs) == [exists |-> TRUE, data |-> bs]

\* os.Remove(p): the file goes away, or is reported missing (ENOENT), or the
\* removal fails for another reason (deny) and the file stays.
Remove(fsx, p, deny) ==
  IF ~fsx[p].exists THEN [fs |-> fsx, err |-> "ENOENT"]
  ELSE IF deny THEN [fs |-> fsx, err |-> "EPERM"]
  ELSE [fs |-> [fsx EXCEPT ![p] = NoFile], err |-> "nil"]

\* os.IsNotExist(err)
IsNotExistAny(e) == TRUE
IsNotExist(e) == e = "ENOENT"

\* Whether os.O_TRUNC is among the flags WriteToTempFile opens its file with.
NoTrunc == FALSE
OpenTrunc == TRUE

\* os.OpenFile(p, O_CREATE|O_WRONLY[|O_TRUNC]): the content the file has once open.
OpenFile(fsx, p) ==
  IF fsx[p].exists /\ ~OpenTrunc THEN fsx[p].data ELSE <<>>

\* Writing bs at offset 0 of a file holding old: bytes beyond bs stay.
Overwrite(old, bs) ==
  bs \o (IF Len(old) > Len(bs) THEN SubSeq(old, Len(bs) + 1, Len(old)) ELSE <<>>)

\* ------------------------------------------------------------------- state
VARIABLES
  ks,     \* ks[d]: the KeyInfo object d (live: NewKeyInfo has returned it)
  fs,     \* fs[p]: the file at path p
  cbuf,   \* the slice the caller holds: key := k.GetKey()
  last,   \* what the last call returned and did
  hist,   \* hist[d]: what object d generated and created, and its last call
  nops    \* number of calls made

vars == <<ks, fs, cbuf, last, hist, nops>>

NoKeyInfo == [live |-> FALSE, URL |-> <<>>, KeyFile |-> <<>>, IV |-> <<>>,
              key |-> <<>>, infoFile |-> <<>>]

\* A caller slice, returned by GetKey of object from (0: nil slice): shared
\* when it has the backing array of ks[from].key, otherwise its own bytes, data.
NoBuf == [from |-> 0, shared |-> FALSE, data |-> <<>>]

\* origKey, genFile: the key and the key file NewKeyInfo generated; created:
\* the files the object created that no Dispose of it has removed; returned:
\* the paths its WriteToTempFile calls returned; overridden, disposed:
\* SetKeyFile, Dispose has been called; justDisposed: the last call was Dispose.
NoHist == [origKey |-> <<>>, genFile |-> <<>>, created |-> {}, returned |-> <<>>,
           overridden |-> FALSE, disposed |-> FALSE, justDisposed |-> FALSE]

\* op(d) returned err, n, out (bytes written or returned) and path, and removed
\* the files in removed; for Dispose, pre is the object before the call and
\* again says that the call before it on the object was a Dispose too; for
\* WriteToTempFile, before is the size the keyinfo file had before the call.
NoLast == [op |-> "none", d |-> 0, err |-> FALSE, n |-> 0, out |-> <<>>,
           path |-> <<>>, removed |-> {}, pre |-> NoKeyInfo, again |-> FALSE,
           before |-> 0]

Init ==
  /\ ks = [d \in Desc |-> NoKeyInfo]
  /\ fs = [p \in Paths |-> IF p \in UserPaths THEN File(<<120>>) ELSE NoFile]
  /\ cbuf = NoBuf
  /\ last = NoLast
  /\ hist = [d \in Desc |-> NoHist]
  /\ nops = 0

Tick == /\ nops < MaxOps
        /\ nops' = nops + 1

Ret(op, d) == [NoLast EXCEPT !.op = op, !.d = d]

Called(d) == [hist EXCEPT ![d].justDisposed = FALSE]

\* ------------------------------------------------------------ io.Writer
\* w.Write(buf) on a sink: it takes all of buf, or (failNow) takes at most acc
\* bytes of it and returns an error.
SinkWrite(buf, failNow, acc) ==
  LET wrote == IF failNow THEN Min(acc, Len(buf)) ELSE Len(buf)
  IN  [wrote |-> wrote, data |-> SubSeq(buf, 1, wrote), err |-> failNow]

\* if k.IV != ""
HasIVAlways(k) == TRUE
HasIV(k) == k.IV # <<>>

\* (k *KeyInfo) WriteTo(w): failAt is the Write call the sink fails (0: none),
\* acc the bytes it takes in that call. n and err are the return values, out
\* the bytes the sink has taken.
WriteTo(k, failAt, acc) ==
  LET urlLine == k.URL \o <<NL>>
      w1 == SinkWrite(urlLine, failAt = 1, acc)
  IN
  IF w1.err THEN [n |-> 0, err |-> TRUE, out |-> w1.data]
  ELSE
    LET written1 == 0 + w1.wrote
        keyFileLine == k.KeyFile \o <<NL>>
        w2 == SinkWrite(keyFileLine, failAt = 2, acc)
    IN
    IF w2.err THEN [n |-> written1, err |-> TRUE, out |-> w1.data \o w2.data]
    ELSE
      LET written2 == written1 + w2.wrote IN
      IF HasIV(k) THEN
        LET ivLine == k.IV \o <<NL>>
            w3 == SinkWrite(ivLine, failAt = 3, acc)
        IN
        IF w3.err
        THEN [n |-> written2, err |-> TRUE, out |-> w1.data \o w2.data \o w3.data]
        ELSE [n |-> written2 + w3.wrote, err |-> FALSE,
              out |-> w1.data \o w2.data \o w3.data]
      ELSE [n |-> written2, err |-> FALSE, out |-> w1.data \o w2.data]

\* --------------------------------------------------------------- GetKey
\* slices.Clone(k.key): a slice with its own backing array
NoClone(d) == [from |-> d, shared |-> TRUE, data |-> <<>>]
Clone(d) == [from |-> d, shared |-> FALSE, data |-> ks[d].key]

\* (k *KeyInfo) GetKey()
GetKeyRes(d) == IF ks[d].key = <<>> THEN NoBuf ELSE Clone(d)

\* The bytes a caller slice reads as.
BufData(b) == IF b.shared THEN ks[b.from].key ELSE b.data

\* -------------------------------------------------------------- Dispose
\* k.KeyFile = "" / k.infoFile = "" after the removal of p was attempted
NotEmptied(p) == p
Emptied(p) == <<>>

\* (k *KeyInfo) Dispose(): deny1, deny2 say whether the removal of the key file
\* and of the keyinfo file is refused by the system. errs is the error list.
DisposeRes(k, fsx, deny1, deny2) ==
  LET r1 == IF k.KeyFile # <<>> THEN Remove(fsx, k.KeyFile, deny1)
            ELSE [fs |-> fsx, err |-> "nil"]
      errs1 == IF k.KeyFile # <<>> /\ r1.err # "nil" /\ ~IsNotExist(r1.err)
               THEN <<"key">> ELSE <<>>
      k1 == IF k.KeyFile # <<>> THEN [k EXCEPT !.KeyFile = Emptied(k.KeyFile)] ELSE k
      r2 == IF k1.infoFile # <<>> THEN Remove(r1.fs, k1.infoFile, deny2)
            ELSE [fs |-> r1.fs, err |-> "nil"]
      errs2 == IF k1.infoFile # <<>> /\ r2.err # "nil" /\ ~IsNotExist(r2.err)
               THEN Append(errs1, "keyinfo") ELSE errs1
      k2 == IF k1.infoFile # <<>> THEN [k1 EXCEPT !.infoFile = Emptied(k1.infoFile)] ELSE k1
  IN  [k |-> k2, fs |-> r2.fs, err |-> Len(errs2) > 0]

\* ------------------------------------------------------ WriteToTempFile
\* (k *KeyInfo) WriteToTempFile(): openFails says whether os.OpenFile fails;
\* failAt and acc are the file's behaviour as the writer of WriteTo.
WriteToTempFileRes(k, fsx, openFails, failAt, acc) ==
  IF k.key = <<>> THEN [k |-> k, fs |-> fsx, path |-> <<>>, err |-> TRUE]
  ELSE
    LET filePath == Join(TempDir, InfoFileName) IN
    IF openFails THEN [k |-> k, fs |-> fsx, path |-> <<>>, err |-> TRUE]
    ELSE
      LET opened == OpenFile(fsx, filePath)
          w == WriteTo(k, failAt, acc)
          fs1 == [fsx EXCEPT ![filePath] = File(Overwrite(opened, w.out))]
      IN
      IF w.err THEN [k |-> k, fs |-> fs1, path |-> <<>>, err |-> TRUE]
      ELSE [k |-> [k EXCEPT !.infoFile = filePath], fs |-> fs1,
            path |-> filePath, err |-> FALSE]

\* ------------------------------------------------------------- actions
Faults == {"none", "rand", "create", "write", "write_noremove"}

\* NewKeyInfo(url): key is what rand.Read yields, r the name os.CreateTemp
\* picks, fault the step that fails (write_noremove: the write fails and so
\* does the os.Remove that follows it), acc the bytes a failing write leaves.
NewKeyInfo(d, url, key, r, fault, acc) ==
  /\ Tick
  /\ ~ks[d].live
  /\ LET path == IF r = <<>> THEN <<>> ELSE TempName(r) IN
     CASE fault \in {"rand", "create"} ->
            /\ UNCHANGED <<ks, fs, hist>>
            /\ last' = [Ret("NewKeyInfo", d) EXCEPT !.err = TRUE]
       [] fault \in {"write", "write_noremove"} ->
            /\ ~fs[path].exists
            /\ fs' = IF fault = "write" THEN fs
                     ELSE [fs EXCEPT ![path] = File(SubSeq(key, 1, Min(acc, Len(key))))]
            /\ UNCHANGED <<ks, hist>>
            /\ last' = [Ret("NewKeyInfo", d) EXCEPT !.err = TRUE]
       [] OTHER ->
            /\ ~fs[path].exists
            /\ fs' = [fs EXCEPT ![path] = File(key)]
            /\ ks' = [ks EXCEPT ![d] = [live |-> TRUE, URL |-> url, KeyFile |-> path,
                                        IV |-> <<>>, key |-> key, infoFile |-> <<>>]]
            /\ hist' = [hist EXCEPT ![d] = [NoHist EXCEPT !.origKey = key,
                                              !.genFile = path, !.created = {path}]]
            /\ last' = [Ret("NewKeyInfo", d) EXCEPT !.path = path]
  /\ UNCHANGED cbuf

\* key := k.GetKey()
GetKey(d) ==
  /\ Tick
  /\ ks[d].live
  /\ cbuf' = GetKeyRes(d)
  /\ last' = [Ret("GetKey", d) EXCEPT !.out = BufData(GetKeyRes(d))]
  /\ hist' = Called(d)
  /\ UNCHANGED <<ks, fs>>

\* key[idx-1] = v, by the caller
Poke(idx, v) ==
  /\ Tick
  /\ idx \in 1..Len(BufData(cbuf))
  /\ IF cbuf.shared
     THEN /\ ks' = [ks EXCEPT ![cbuf.from].key[idx] = v]
          /\ UNCHANGED cbuf
     ELSE /\ cbuf' = [cbuf EXCEPT !.data[idx] = v]
          /\ UNCHANGED ks
  /\ last' = [NoLast EXCEPT !.op = "Poke"]
  /\ UNCHANGED <<fs, hist>>

SetIV(d, iv) ==
  /\ Tick
  /\ ks[d].live
  /\ ks' = [ks EXCEPT ![d].IV = iv]
  /\ last' = Ret("SetIV", d)
  /\ hist' = Called(d)
  /\ UNCHANGED <<fs, cbuf>>

SetKeyFile(d, keyFile) ==
  /\ Tick
  /\ ks[d].live
  /\ ks' = [ks EXCEPT ![d].KeyFile = keyFile]
  /\ last' = Ret("SetKeyFile", d)
  /\ hist' = [Called(d) EXCEPT ![d].overridden = TRUE]
  /\ UNCHANGED <<fs, cbuf>>

\* RandIV(): iv is what rand.Read yields, randFails whether it fails.
RandIV(d, iv, randFails) ==
  /\ Tick
  /\ ks[d].live
  /\ ks' = [ks EXCEPT ![d].IV = IF randFails THEN ZeroIV ELSE Sprintf032x(iv)]
  /\ last' = Ret("RandIV", d)
  /\ hist' = Called(d)
  /\ UNCHANGED <<fs, cbuf>>

Dispose(d, deny1, deny2) ==
  /\ Tick
  /\ ks[d].live
  /\ LET res == DisposeRes(ks[d], fs, deny1, deny2) IN
     /\ ks' = [ks EXCEPT ![d] = res.k]
     /\ fs' = res.fs
     /\ last' = [Ret("Dispose", d) EXCEPT !.err = res.err,
                   !.removed = {p \in Paths : fs[p].exists /\ ~res.fs[p].exists},
                   !.pre = ks[d], !.again = hist[d].justDisposed]
  /\ hist' = [hist EXCEPT ![d].justDisposed = TRUE, ![d].disposed = TRUE,
                ![d].created = {p \in @ : fs'[p].exists}]
  /\ UNCHANGED cbuf

\* n, err := k.WriteTo(sink)
WriteToSink(d, failAt, acc) ==
  /\ Tick
  /\ ks[d].live
  /\ LET w == WriteTo(ks[d], failAt, acc) IN
     last' = [Ret("WriteTo", d) EXCEPT !.err = w.err, !.n = w.n, !.out = w.out]
  /\ hist' = Called(d)
  /\ UNCHANGED <<ks, fs, cbuf>>

WriteToTempFile(d, openFails, failAt, acc) ==
  /\ Tick
  /\ ks[d].live
  /\ LET res == WriteToTempFileRes(ks[d], fs, openFails, failAt, acc) IN
     /\ ks' = [ks EXCEPT ![d] = res.k]
     /\ fs' = res.fs
     /\ last' = [Ret("WriteToTempFile", d) EXCEPT !.err = res.err, !.path = res.path,
                   !.before = Len(fs[InfoPath].data)]
     /\ hist' = [Called(d) EXCEPT
                   ![d].created = @ \cup {p \in Paths : ~fs[p].exists /\ res.fs[p].exists},
                   ![d].returned = IF res.err THEN @ ELSE Append(@, res.path)]
  /\ UNCHANGED cbuf

\* The failures of a writer: (0, 0) none; otherwise Write call failAt fails
\* after taking acc bytes.
WriterFaults == {<<0, 0>>} \cup ((1..3) \X {0, MaxPartial})

\* What a call of NewKeyInfo meets: <<key, r, fault, acc>>. A call that fails at
\* rand.Read or os.CreateTemp has no key, name or written bytes to choose.
NewOutcomes ==
  ({<<>>} \X {<<>>} \X {"rand", "create"} \X {0})
  \cup (RandBytes \X RandNames \X {"write", "write_noremove"} \X {0, MaxPartial})
  \cup (RandBytes \X RandNames \X {"none"} \X {0})

\* What a call of WriteToTempFile meets: <<openFails, failAt, acc>>.
TempFileOutcomes == {<<TRUE, 0, 0>>} \cup {<<FALSE, wf[1], wf[2]>> : wf \in WriterFaults}

\* What rand.Read yields in RandIV: <<iv, randFails>>.
RandIVOutcomes == {<<<<>>, TRUE>>} \cup (RandBytes \X {FALSE})

Next ==
  \/ \E d \in Desc, url \in URLs, o \in NewOutcomes :
       NewKeyInfo(d, url, o[1], o[2], o[3], o[4])
  \/ \E d \in Desc : GetKey(d)
  \/ \E v \in PokeValues : Poke(1, v)
  \/ \E d \in Desc, iv \in IVs : SetIV(d, iv)
  \/ \E d \in Desc, keyFile \in KeyFileArgs : SetKeyFile(d, keyFile)
  \/ \E d \in Desc, o \in RandIVOutcomes : RandIV(d, o[1], o[2])
  \/ \E d \in Desc, deny1 \in BOOLEAN, deny2 \in BOOLEAN : Dispose(d, deny1, deny2)
  \/ \E d \in Desc, wf \in WriterFaults : WriteToSink(d, wf[1], wf[2])
  \/ \E d \in Desc, o \in TempFileOutcomes : WriteToTempFile(d, o[1], o[2], o[3])

Spec == Init /\ [][Next]_vars

\* =================================================================== claims
\* The text the keyinfo format prescribes for object k.
Serialized(k) ==
  k.URL \o <<NL>> \o k.KeyFile \o <<NL>> \o (IF k.IV = <<>> THEN <<>> ELSE k.IV \o <<NL>>)

\* Number of newline bytes in bs.
Newlines(bs) == Cardinality({i \in 1..Len(bs) : bs[i] = NL})

\* The files object k tracks.
Tracked(k) == {p \in {k.KeyFile, k.infoFile} : p # <<>>}

\* C1: a WriteTo into a writer that does not fail writes URL, KeyFile and, if
\* and only if IV is not empty, IV, each followed by one newline and nothing
\* else (three lines with an IV, two without), and returns the number of bytes
\* written.
C1_WriteToFormat ==
  (last.op = "WriteTo" /\ ~last.err) =>
    LET k == ks[last.d] IN
    /\ last.out = Serialized(k)
    /\ last.n = Len(last.out)
    /\ Newlines(last.out) = (IF k.IV # <<>> THEN 3 ELSE 2)
    /\ last.out[Len(last.out)] = NL

\* A WriteTo of an object that has a random IV and was disposed (its KeyFile
\* is empty) has returned without error.
C1_Witness ==
  /\ last.op = "WriteTo" /\ ~last.err
  /\ Len(ks[last.d].IV) = 2 * IVLen /\ ks[last.d].IV # ZeroIV
  /\ hist[last.d].disposed

\* C2: a Dispose after SetKeyFile(p), p a file of the caller's, does not remove
\* the file at p.
C2_DisposeKeepsCallerFile ==
  last.op = "Dispose" =>
    \A p \in UserPaths :
      (hist[last.d].overridden /\ last.pre.KeyFile = p) => p \notin last.removed

\* C3: two objects that were constructed and written to temporary files, with
\* no SetKeyFile (and no Dispose), track no file in common.
C3_DistinctFiles ==
  \A d1, d2 \in Desc :
    ( /\ d1 # d2
      /\ ks[d1].live /\ ks[d2].live
      /\ ~hist[d1].overridden /\ ~hist[d2].overridden
      /\ ~hist[d1].disposed /\ ~hist[d2].disposed )
    => Tracked(ks[d1]) \cap Tracked(ks[d2]) = {}

\* C4: after Dispose, KeyFile is empty whatever the removals did, and if
\* Dispose returned no error the file KeyFile named before the call and the
\* recorded keyinfo file do not exist.
C4_DisposeClears ==
  last.op = "Dispose" =>
    /\ ks[last.d].KeyFile = <<>>
    /\ ~last.err => \A p \in Tracked(last.pre) : ~fs[p].exists

\* A Dispose has removed a key file and a keyinfo file and returned no error.
C4_Witness ==
  /\ last.op = "Dispose" /\ ~last.err
  /\ last.pre.KeyFile # <<>> /\ last.pre.infoFile # <<>>
  /\ last.pre.KeyFile # last.pre.infoFile
  /\ last.removed = Tracked(last.pre)

\* C5: a Dispose right after a Dispose of the same object returns no error,
\* removes nothing and leaves KeyFile and the keyinfo path empty; and a Dispose
\* whose tracked files were all absent already returns no error.
C5_DisposeIdempotent ==
  last.op = "Dispose" =>
    /\ last.again =>
         /\ ~last.err
         /\ last.removed = {}
         /\ ks[last.d].KeyFile = <<>>
         /\ ks[last.d].infoFile = <<>>
    /\ (\A p \in Tracked(last.pre) : ~fs[p].exists /\ p \notin last.removed)
         => ~last.err

\* A second Dispose in a row has returned, of an object that still has a file
\* it created on disk (a removal was refused, or the file was not tracked).
C5_Witness ==
  /\ last.op = "Dispose" /\ last.again
  /\ \E p \in hist[last.d].created : fs[p].exists

\* A Dispose of an object that tracked a file that was absent has returned.
C5_WitnessAbsent ==
  /\ last.op = "Dispose" /\ ~last.again
  /\ Tracked(last.pre) # {}
  /\ \A p \in Tracked(last.pre) : ~fs[p].exists /\ p \notin last.removed

\* C6: the successful WriteToTempFile calls of one object all return the same
\* path, and after each the file at that path holds exactly the serialization
\* of the object as it is at that call.
C6_TempFileRewritten ==
  /\ \A d \in Desc : \A i, j \in 1..Len(hist[d].returned) :
       hist[d].returned[i] = hist[d].returned[j]
  /\ (last.op = "WriteToTempFile" /\ ~last.err) =>
       /\ last.path \in Paths
       /\ fs[last.path] = File(Serialized(ks[last.d]))

\* A second successful WriteToTempFile of an object has replaced a longer
\* content of the file by a shorter one.
C6_Witness ==
  /\ last.op = "WriteToTempFile" /\ ~last.err
  /\ Len(hist[last.d].returned) >= 2
  /\ last.before > Len(Serialized(ks[last.d]))

\* C7: the key of a constructed object is the 16 bytes NewKeyInfo generated,
\* whatever was called since and whatever the caller stored into the slices
\* GetKey returned, and every GetKey returns those bytes.
C7_KeyImmutable ==
  /\ \A d \in Desc : ks[d].live =>
       /\ ks[d].key = hist[d].origKey
       /\ Len(ks[d].key) = KeyLen
  /\ last.op = "GetKey" => last.out = hist[last.d].origKey

\* The caller has changed a byte of a slice GetKey returned.
C7_Witness ==
  /\ last.op = "Poke"
  /\ cbuf.from # 0
  /\ BufData(cbuf) # hist[cbuf.from].origKey

\* C8: KeyFile of a constructed object is empty only after Dispose, and before
\* Dispose and without SetKeyFile it names a file holding exactly the key.
C8_KeyFileInvariant ==
  \A d \in Desc : ks[d].live =>
    /\ ks[d].KeyFile = <<>> => hist[d].disposed
    /\ (~hist[d].disposed /\ ~hist[d].overridden) =>
         /\ ks[d].KeyFile \in Paths
         /\ fs[ks[d].KeyFile] = File(ks[d].key)

\* C9: a WriteTo that fails returns the number of bytes the writer has taken.
C9_FailedWriteCount ==
  (last.op = "WriteTo" /\ last.err) => last.n = Len(last.out)

\* C10: after a Dispose that returned no error, no file the object created is
\* left.
C10_DisposeReleasesAll ==
  (last.op = "Dispose" /\ ~last.err) =>
    \A p \in hist[last.d].created : ~fs[p].exists

====
